---- MODULE Spec2Model ----
(***************************************************************************)
(* kompress_cache: a Redis cache facade with one primary and optional      *)
(* replicas (cache.py), and the guard that wraps every store command       *)
(* (decorators.py).  Each `await` of the Python code is a step boundary:   *)
(* an action is the synchronous code that runs between two awaits.         *)
(***************************************************************************)
EXTENDS Integers, Sequences, FiniteSets, TLC

\* ------------------------------------------------------------------ bounds
MaxReplicas == 2        \* replicas configured in REDIS_REPLICAS_HOST_PORT
MaxCalls == 2           \* public calls started in one behaviour

\* ------------------------------------------------------------- topology
Primary == 0            \* self.primary; the replicas are the nodes 1..replicas
Procs == {"c1", "c2"}   \* callers (coroutines) that can hold a call open
AllNodes == 0..MaxReplicas

\* --------------------------------------------------------------- values
None == "<None>"                     \* Python None: hget of a missing field
Hashes == {"users"}
Keys == {"42", "43"}
Fields == Hashes \X Keys             \* (cache_name, cache_key)
Values == {"", "ann_json", "bad_json"}   \* strings a caller or a loader supplies
NoModel == "<no model>"              \* model=None
Models == {"User"}
LoaderKinds == {"sync", "async"}     \* `def load` (the Protocol) / `async def load`

\* Commands the Redis client provides (getattr succeeds on them), and the
\* attribute names a caller can ask the cache for.
RedisCommands == {"hget", "hset", "hexists"}
Names == RedisCommands \cup {"hgetx"}

\* bool(value), as tested by `not value`
Truthy(v) == v # None /\ v # ""

\* ----------------------------------------------------------- exceptions
\* What a store command can raise: redis.exceptions.ConnectionError,
\* redis.exceptions.TimeoutError, or anything else.
RawErrors == {"ConnectionError", "TimeoutError", "ValueError"}

NoExc == [type |-> "none", status_code |-> 0, detail |-> "", context |-> "none"]
Raw(t) == [type |-> t, status_code |-> 0, detail |-> "", context |-> "none"]
\* HTTPException(status_code, detail) raised while `ctx` is being handled
\* (Python records it as __context__).
HTTPException(code, detail, ctx) ==
    [type |-> "HTTPException", status_code |-> code, detail |-> detail, context |-> ctx]

\* AttributeError("'Cache' object has no attribute '{}'".format(name)) from None
AttributeError(name) ==
    [type |-> "AttributeError", status_code |-> 0,
     detail |-> "'Cache' object has no attribute '" \o name \o "'", context |-> "none"]

\* isinstance(exc, cls)
IsInstance(exc, cls) == exc.type = cls

\* Mutant: no early re-raise of an HTTPException, every input is classified.
handle_exception_reclassifies(exc) ==
    IF IsInstance(exc, "ConnectionError")
    THEN HTTPException(503, "Service Unavailable", exc.type)
    ELSE IF IsInstance(exc, "TimeoutError")
    THEN HTTPException(504, "Gateway Timeout", exc.type)
    ELSE HTTPException(500, "Internal Server Error", exc.type)

\* Mutant: the TimeoutError branch is missing.
handle_exception_no_timeout(exc) ==
    IF IsInstance(exc, "HTTPException")
    THEN exc
    ELSE IF IsInstance(exc, "ConnectionError")
    THEN HTTPException(503, "Service Unavailable", exc.type)
    ELSE HTTPException(500, "Internal Server Error", exc.type)

\* handle_exception(exc): the exception it raises (it has no normal return).
handle_exception(exc) ==
    IF IsInstance(exc, "HTTPException")
    THEN exc
    ELSE IF IsInstance(exc, "ConnectionError")
    THEN HTTPException(503, "Service Unavailable", exc.type)
    ELSE IF IsInstance(exc, "TimeoutError")
    THEN HTTPException(504, "Gateway Timeout", exc.type)
    ELSE HTTPException(500, "Internal Server Error", exc.type)

\* ------------------------------------------------------- schema validation
ValidationError == "<ValidationError>"
\* model.model_validate_json(json_data): the parsed model, or ValidationError.
model_validate_json(json_data, model) ==
    IF json_data = "ann_json" /\ model = "User"
    THEN "User(name='Ann')"
    ELSE ValidationError

validate_json(json_data, model) ==
    model_validate_json(json_data, model) # ValidationError

\* ---------------------------------------------------------------- state
VARIABLES
    replicas,   \* len(self.replicas), fixed by __init__
    store,      \* store[node][field]: what each Redis node holds
    callers,    \* the callers that use the cache in this behaviour (one in
                \* Spec: its calls follow one another)
    call,       \* call[p]: the call caller p has open, or how it ended
    calls,      \* public calls started so far
    last_hset   \* last_hset[f]: the caller whose hset of field f the primary
                \* executed last (history of the primary)

vars == <<replicas, store, callers, call, calls, last_hset>>

Replicas == 1..replicas

Pending == "<pending>"                \* a local not assigned yet

EmptyStore == [f \in Fields |-> None]

\* The frame of one public call: its arguments, the guard it is in
\* (cmd, node, fail_over_to), what it has done so far and how it ended.
IdleCall ==
    [pc |-> "idle", op |-> "none", args |-> <<"users", "42">>, value |-> None,
     model |-> NoModel, loader |-> "async",
     cmd |-> "none", node |-> Primary, fail_over_to |-> "none",
     attempts |-> <<>>, fallback_logs |-> 0, loader_calls |-> 0,
     got |-> Pending, payload |-> Pending,
     tasks |-> <<>>, released |-> <<>>,
     result |-> "pending", ret |-> None, raised |-> NoExc]

Init ==
    /\ replicas \in 0..MaxReplicas
    /\ store = [n \in AllNodes |-> EmptyStore]
    /\ callers = {"c1"}
    /\ call = [p \in Procs |-> IdleCall]
    /\ calls = 0
    /\ last_hset = [f \in Fields |-> "nobody"]

\* ----------------------------------------------------------------- router
\* Mutant: the attribute lookup on the primary is taken to succeed.
_get_primary_attr_unchecked(name) ==
    [cmd |-> name, node |-> Primary, fail_over_to |-> "none", raises |-> FALSE]

\* self._get_primary_attr(name): the primary's command under a guard
\* without fail-over, or AttributeError when the primary has no such
\* attribute (raises).
_get_primary_attr(name) ==
    [cmd |-> name, node |-> Primary, fail_over_to |-> "none",
     raises |-> name \notin RedisCommands]

\* Mutant: no `if not self.replicas` early return.
_get_attr_from_a_replica_unchecked(name, n, r) ==
    [cmd |-> name, node |-> r, fail_over_to |-> "guarded", raises |-> FALSE]

\* self._get_attr_from_a_replica(name), r being random.choice(self.replicas):
\* the primary attribute is resolved first, then the replica is chosen.
_get_attr_from_a_replica(name, n, r) ==
    IF _get_primary_attr(name).raises \/ n = 0
    THEN _get_primary_attr(name)
    ELSE [cmd |-> name, node |-> r, fail_over_to |-> "guarded", raises |-> FALSE]

\* Mutant: the choice is made among the primary and the replicas.
ChoicesWithPrimary(n) == 0..n

\* The replicas random.choice can return (the primary stands in when the
\* list is empty and nothing is chosen).
Choices(n) == IF n = 0 THEN {Primary} ELSE 1..n

\* The resolved callable is awaited (the command is in flight), unless the
\* resolution raised.
Enter(c, guard) ==
    IF guard.raises
    THEN [c EXCEPT !.pc = "done", !.result = "raise", !.cmd = guard.cmd,
                   !.node = guard.node, !.raised = AttributeError(guard.cmd)]
    ELSE [c EXCEPT !.pc = "func", !.cmd = guard.cmd, !.node = guard.node,
                   !.fail_over_to = guard.fail_over_to]

\* The record of one awaited store command: who awaited it (func or
\* fail_over_to), on which node, with which arguments, and how it ended
\* (error "none" and the reply, or the error raised).
Attempted(c, role, n, reply, error) ==
    [c EXCEPT !.attempts =
        Append(@, [role |-> role, node |-> n, cmd |-> c.cmd, args |-> c.args,
                   value |-> IF c.cmd = "hset" THEN c.value ELSE None,
                   reply |-> reply, error |-> error])]

\* ------------------------------------------------------- ends of a call
Return(c, v) == [c EXCEPT !.pc = "done", !.result = "return", !.ret = v]
Raise(c, e) == [c EXCEPT !.pc = "done", !.result = "raise", !.raised = e]

\* `return model.model_validate_json(value) if model else value`
ReturnValue(c) ==
    IF c.model # NoModel
    THEN IF model_validate_json(c.value, c.model) = ValidationError
         THEN Raise(c, Raw("ValidationError"))
         ELSE Return(c, model_validate_json(c.value, c.model))
    ELSE Return(c, c.value)

\* hget_l line 235: the value read is a miss or fails the model
IsMiss(value, model) ==
    ~Truthy(value) \/ (model # NoModel /\ ~validate_json(value, model))

\* The code that runs once the guarded hget has returned v.
AfterHget(c, v) ==
    IF c.op # "hget_l"
    THEN Return([c EXCEPT !.got = v], v)
    ELSE IF IsMiss(v, c.model)
         THEN [c EXCEPT !.got = v, !.value = v, !.pc = "loading",
                        !.loader_calls = @ + 1]
         ELSE ReturnValue([c EXCEPT !.got = v, !.value = v])

\* The code that runs once the guarded hset has returned.
AfterHset(c) ==
    IF c.op = "hget_l" THEN ReturnValue(c) ELSE Return(c, None)

Continue(c, v) ==
    IF c.op \in {"by_name", "read_by_name"} THEN Return(c, v)
    ELSE IF c.cmd = "hget" THEN AfterHget(c, v) ELSE AfterHset(c)

\* ---------------------------------------------------------- store commands
\* What the command returns on node n, and the store it leaves.
Reply(c, n) ==
    IF c.cmd = "hget" THEN store[n][c.args]
    ELSE IF c.cmd = "hexists"
         THEN (IF store[n][c.args] # None THEN "True" ELSE "False")
         ELSE None

\* Mutant: the store keeps the first value written to a field (HSETNX).
StoreAfterIfAbsent(c, n) ==
    IF c.cmd = "hset" /\ store[n][c.args] = None
    THEN [store EXCEPT ![n][c.args] = c.value] ELSE store

StoreAfter(c, n) ==
    IF c.cmd = "hset" THEN [store EXCEPT ![n][c.args] = c.value] ELSE store

\* Who wrote each field of the primary last, once node n has executed the
\* command of call c of caller p.
LastHsetAfter(c, p, n) ==
    IF c.cmd = "hset" /\ n = Primary
    THEN [last_hset EXCEPT ![c.args] = p] ELSE last_hset

\* ---------------------------------------------------------- public calls
CanStart(p) ==
    /\ p \in callers
    /\ call[p].pc \in {"idle", "done"}
    /\ calls < MaxCalls

\* Mutant: hset resolved like a read, on a replica with fail-over.
HsetOnReplica(p, f, value) ==
    /\ CanStart(p)
    /\ \E r \in Choices(replicas) :
        call' = [call EXCEPT ![p] =
                   Enter([IdleCall EXCEPT !.op = "hset", !.args = f, !.value = value],
                         _get_attr_from_a_replica("hset", replicas, r))]
    /\ calls' = calls + 1
    /\ UNCHANGED <<replicas, store, last_hset, callers>>

\* Cache.hset(cache_name, cache_key, value)
Hset(p, f, value) ==
    /\ CanStart(p)
    /\ call' = [call EXCEPT ![p] =
                  Enter([IdleCall EXCEPT !.op = "hset", !.args = f, !.value = value],
                        _get_primary_attr("hset"))]
    /\ calls' = calls + 1
    /\ UNCHANGED <<replicas, store, last_hset, callers>>

\* Cache.hget(cache_name, cache_key)
Hget(p, f, r) ==
    /\ CanStart(p)
    /\ r \in Choices(replicas)
    /\ call' = [call EXCEPT ![p] =
                  Enter([IdleCall EXCEPT !.op = "hget", !.args = f],
                        _get_attr_from_a_replica("hget", replicas, r))]
    /\ calls' = calls + 1
    /\ UNCHANGED <<replicas, store, last_hset, callers>>

\* Cache.hget_l(cache_name, cache_key, loader, model), up to its first await
HgetL(p, f, loader, model, r) ==
    /\ CanStart(p)
    /\ r \in Choices(replicas)
    /\ call' = [call EXCEPT ![p] =
                  Enter([IdleCall EXCEPT !.op = "hget_l", !.args = f,
                                         !.loader = loader, !.model = model],
                        _get_attr_from_a_replica("hget", replicas, r))]
    /\ calls' = calls + 1
    /\ UNCHANGED <<replicas, store, last_hset, callers>>

\* Mutant: the by-name accessor resolves like a read, on a replica.
GetAttrOnReplica(p, name, f) ==
    /\ CanStart(p)
    /\ name \notin {"hget", "hset"}
    /\ \E r \in Choices(replicas) :
        call' = [call EXCEPT ![p] =
                   Enter([IdleCall EXCEPT !.op = "by_name", !.args = f],
                         _get_attr_from_a_replica(name, replicas, r))]
    /\ calls' = calls + 1
    /\ UNCHANGED <<replicas, store, last_hset, callers>>

\* cache.<name>(cache_name, cache_key) for a name Cache does not define:
\* Cache.__getattr__(name), then the call of what it returned.
GetAttr(p, name, f) ==
    /\ CanStart(p)
    /\ name \notin {"hget", "hset"}
    /\ call' = [call EXCEPT ![p] =
                  Enter([IdleCall EXCEPT !.op = "by_name", !.args = f],
                        _get_primary_attr(name))]
    /\ calls' = calls + 1
    /\ UNCHANGED <<replicas, store, last_hset, callers>>

\* self._get_attr_from_a_replica(name)(cache_name, cache_key): the read
\* resolution, for any name.
ReadByName(p, name, f, r) ==
    /\ CanStart(p)
    /\ name # "hset"
    /\ r \in Choices(replicas)
    /\ call' = [call EXCEPT ![p] =
                  Enter([IdleCall EXCEPT !.op = "read_by_name", !.args = f],
                        _get_attr_from_a_replica(name, replicas, r))]
    /\ calls' = calls + 1
    /\ UNCHANGED <<replicas, store, last_hset, callers>>

\* redis_exception_handler(fail_over_to)(func) called directly, as test.py
\* does: func is hget on node n, fail_over_to is absent or the primary's
\* unguarded hget.
Decorated(p, f, n, fo) ==
    /\ CanStart(p)
    /\ n \in 0..replicas
    /\ call' = [call EXCEPT ![p] =
                  Enter([IdleCall EXCEPT !.op = "decorated", !.args = f],
                        [cmd |-> "hget", node |-> n, fail_over_to |-> fo,
                         raises |-> FALSE])]
    /\ calls' = calls + 1
    /\ UNCHANGED <<replicas, store, last_hset, callers>>

\* ------------------------------------------------------------ the guard
\* Mutant: the result of func is not returned when a fail_over_to exists.
FuncReturnsThenFailOver(p) ==
    /\ call[p].pc = "func"
    /\ LET c == call[p]
           d == Attempted(c, "func", c.node, Reply(c, c.node), "none") IN
        /\ store' = StoreAfter(c, c.node)
        /\ last_hset' = LastHsetAfter(c, p, c.node)
        /\ call' = [call EXCEPT ![p] =
                      IF c.fail_over_to # "none"
                      THEN [d EXCEPT !.pc = "fail_over"]
                      ELSE Continue(d, Reply(c, c.node))]
    /\ UNCHANGED <<replicas, callers, calls>>

\* wrapper: `return await func(*args, **kwargs)` completes normally.
FuncReturns(p) ==
    /\ call[p].pc = "func"
    /\ LET c == call[p] IN
        /\ store' = StoreAfter(c, c.node)
        /\ last_hset' = LastHsetAfter(c, p, c.node)
        /\ call' = [call EXCEPT ![p] =
                      Continue(Attempted(c, "func", c.node, Reply(c, c.node), "none"),
                               Reply(c, c.node))]
    /\ UNCHANGED <<replicas, callers, calls>>

\* Mutant: without fail_over_to the error is swallowed and None returned.
FuncRaisesSwallows(p, e) ==
    /\ call[p].pc = "func"
    /\ LET c == Attempted(call[p], "func", call[p].node, None, e) IN
        call' = [call EXCEPT ![p] =
                   IF c.fail_over_to # "none"
                   THEN [c EXCEPT !.pc = "fail_over", !.fallback_logs = @ + 1]
                   ELSE Return(c, None)]
    /\ UNCHANGED <<replicas, store, last_hset, callers, calls>>

\* wrapper: func raises e; without fail_over_to, handle_exception(exc).
FuncRaises(p, e) ==
    /\ call[p].pc = "func"
    /\ LET c == Attempted(call[p], "func", call[p].node, None, e) IN
        call' = [call EXCEPT ![p] =
                   IF c.fail_over_to # "none"
                   THEN [c EXCEPT !.pc = "fail_over", !.fallback_logs = @ + 1]
                   ELSE Raise(c, handle_exception(Raw(e)))]
    /\ UNCHANGED <<replicas, store, last_hset, callers, calls>>

\* Mutant: the `return` before `await fail_over_to(...)` is missing, so
\* control falls through to handle_exception(exc).
FailOverReturnsFallsThrough(p) ==
    /\ call[p].pc = "fail_over"
    /\ LET c == call[p] IN
        /\ store' = StoreAfter(c, Primary)
        /\ last_hset' = LastHsetAfter(c, p, Primary)
        /\ call' = [call EXCEPT ![p] =
                      Raise(Attempted(c, "fail_over", Primary, Reply(c, Primary), "none"),
                            handle_exception(Raw(c.attempts[Len(c.attempts)].error)))]
    /\ UNCHANGED <<replicas, callers, calls>>

\* wrapper: `return await fail_over_to(*args, **kwargs)` completes normally.
FailOverReturns(p) ==
    /\ call[p].pc = "fail_over"
    /\ LET c == call[p] IN
        /\ store' = StoreAfter(c, Primary)
        /\ last_hset' = LastHsetAfter(c, p, Primary)
        /\ call' = [call EXCEPT ![p] =
                      Continue(Attempted(c, "fail_over", Primary, Reply(c, Primary), "none"),
                               Reply(c, Primary))]
    /\ UNCHANGED <<replicas, callers, calls>>

\* What fail_over_to raises when the primary's command raises e: the guarded
\* primary_attr has already run handle_exception on it.
FailOverExc(c, e) ==
    IF c.fail_over_to = "guarded" THEN handle_exception(Raw(e)) ELSE Raw(e)

\* Mutant: in hget_l a read that failed on both nodes counts as a miss.
FailOverRaisesThenLoads(p, e) ==
    /\ call[p].pc = "fail_over"
    /\ LET c == Attempted(call[p], "fail_over", Primary, None, e) IN
        call' = [call EXCEPT ![p] =
                   IF c.op = "hget_l"
                   THEN [c EXCEPT !.pc = "loading", !.loader_calls = @ + 1]
                   ELSE Raise(c, handle_exception(FailOverExc(c, e)))]
    /\ UNCHANGED <<replicas, store, last_hset, callers, calls>>

\* wrapper: fail_over_to raises; handle_exception(fail_over_exc).
FailOverRaises(p, e) ==
    /\ call[p].pc = "fail_over"
    /\ LET c == Attempted(call[p], "fail_over", Primary, None, e) IN
        call' = [call EXCEPT ![p] = Raise(c, handle_exception(FailOverExc(c, e)))]
    /\ UNCHANGED <<replicas, store, last_hset, callers, calls>>

\* ------------------------------------------------------------ the loader
\* `value = await loader.load()` where load() produced `payload`: a load
\* that is a plain method returns the str itself and `await` rejects it;
\* otherwise hset is resolved and awaited.
LoaderReturns(p, payload) ==
    /\ call[p].pc = "loading"
    /\ LET c == [call[p] EXCEPT !.payload = payload] IN
        call' = [call EXCEPT ![p] =
                   IF c.loader = "sync"
                   THEN Raise(c, Raw("TypeError"))
                   ELSE Enter([c EXCEPT !.value = payload], _get_primary_attr("hset"))]
    /\ UNCHANGED <<replicas, store, last_hset, callers, calls>>

\* Mutant: a failed load is caught and an empty payload is cached.
LoaderRaisesThenCachesEmpty(p) ==
    /\ call[p].pc = "loading"
    /\ call' = [call EXCEPT ![p] =
                  Enter([call[p] EXCEPT !.value = ""], _get_primary_attr("hset"))]
    /\ UNCHANGED <<replicas, store, last_hset, callers, calls>>

\* loader.load() raises: nothing in hget_l catches it.
LoaderRaises(p) ==
    /\ call[p].pc = "loading"
    /\ call' = [call EXCEPT ![p] = Raise(call[p], Raw("LoaderError"))]
    /\ UNCHANGED <<replicas, store, last_hset, callers, calls>>

\* ------------------------------------------------------------ the store
\* Redis replication: replica r catches up with the primary.
Replicate(r) ==
    /\ r \in Replicas
    /\ store[r] # store[Primary]
    /\ store' = [store EXCEPT ![r] = store[Primary]]
    /\ UNCHANGED <<replicas, callers, call, calls, last_hset>>

\* ------------------------------------------------------------------ aclose
\* Mutant: only the replicas are released.
TasksOfReplicas(n) == [i \in 1..n |-> [node |-> i, state |-> "pending"]]

\* tasks = [cache.aclose() for cache in [self.primary, *self.replicas]]
Tasks(n) == [i \in 1..(n + 1) |-> [node |-> i - 1, state |-> "pending"]]

\* aclose up to `await asyncio.gather(*tasks)`: one release per node is
\* handed to the event loop; tasks[i] is the release of one node and
\* released lists the nodes in the order their releases completed.
Aclose(p) ==
    /\ CanStart(p)
    /\ call' = [call EXCEPT ![p] =
                  [IdleCall EXCEPT !.op = "aclose", !.pc = "gather",
                                   !.tasks = Tasks(replicas)]]
    /\ calls' = calls + 1
    /\ UNCHANGED <<replicas, store, last_hset, callers>>

\* The release of one node completes; the event loop takes the pending
\* releases in any order.
TaskCloses(p, i) ==
    /\ call[p].op = "aclose"
    /\ i \in 1..Len(call[p].tasks)
    /\ call[p].tasks[i].state = "pending"
    /\ call' = [call EXCEPT ![p].tasks[i].state = "closed",
                            ![p].released = Append(@, call[p].tasks[i].node)]
    /\ UNCHANGED <<replicas, store, last_hset, callers, calls>>

\* The release of one node raises: gather hands the first exception to
\* aclose, which no guard wraps, and the other releases keep running.
TaskRaises(p, i, e) ==
    /\ call[p].op = "aclose"
    /\ i \in 1..Len(call[p].tasks)
    /\ call[p].tasks[i].state = "pending"
    /\ LET c == [call[p] EXCEPT !.tasks[i].state = "failed"] IN
        call' = [call EXCEPT ![p] =
                   IF c.pc = "gather" THEN Raise(c, Raw(e)) ELSE c]
    /\ UNCHANGED <<replicas, store, last_hset, callers, calls>>

\* gather returns once every release has completed; aclose returns None.
GatherReturns(p) ==
    /\ call[p].pc = "gather"
    /\ \A i \in 1..Len(call[p].tasks) : call[p].tasks[i].state = "closed"
    /\ call' = [call EXCEPT ![p] = Return(call[p], None)]
    /\ UNCHANGED <<replicas, store, last_hset, callers, calls>>

Next ==
    \/ \E p \in Procs, f \in Fields, v \in Values : Hset(p, f, v)
    \/ \E p \in Procs, f \in Fields, r \in AllNodes : Hget(p, f, r)
    \/ \E p \in Procs, f \in Fields, l \in LoaderKinds, m \in Models \cup {NoModel},
          r \in AllNodes : HgetL(p, f, l, m, r)
    \/ \E p \in Procs, f \in Fields, n \in AllNodes, fo \in {"none", "raw"} :
          Decorated(p, f, n, fo)
    \/ \E p \in Procs, name \in Names, f \in Fields : GetAttr(p, name, f)
    \/ \E p \in Procs, name \in Names, f \in Fields, r \in AllNodes :
          ReadByName(p, name, f, r)
    \/ \E p \in Procs : FuncReturns(p)
    \/ \E p \in Procs, e \in RawErrors : FuncRaises(p, e)
    \/ \E p \in Procs : FailOverReturns(p)
    \/ \E p \in Procs, e \in RawErrors : FailOverRaises(p, e)
    \/ \E p \in Procs, v \in Values : LoaderReturns(p, v)
    \/ \E p \in Procs : LoaderRaises(p)
    \/ \E r \in AllNodes : Replicate(r)
    \/ \E p \in Procs : Aclose(p)
    \/ \E p \in Procs, i \in 1..(MaxReplicas + 1) : TaskCloses(p, i)
    \/ \E p \in Procs, i \in 1..(MaxReplicas + 1), e \in RawErrors : TaskRaises(p, i, e)
    \/ \E p \in Procs : GatherReturns(p)

Spec == Init /\ [][Next]_vars

\* Two callers use the same cache object: their calls interleave at every
\* await.
InitConc ==
    /\ replicas \in 0..MaxReplicas
    /\ store = [n \in AllNodes |-> EmptyStore]
    /\ callers = Procs
    /\ call = [p \in Procs |-> IdleCall]
    /\ calls = 0
    /\ last_hset = [f \in Fields |-> "nobody"]

\* The steps of concurrent hget_l calls, and replication.
NextConc ==
    \/ \E p \in Procs, f \in Fields, l \in LoaderKinds, m \in Models \cup {NoModel},
          r \in AllNodes : HgetL(p, f, l, m, r)
    \/ \E p \in Procs : FuncReturns(p)
    \/ \E p \in Procs, e \in RawErrors : FuncRaises(p, e)
    \/ \E p \in Procs : FailOverReturns(p)
    \/ \E p \in Procs, e \in RawErrors : FailOverRaises(p, e)
    \/ \E p \in Procs, v \in Values : LoaderReturns(p, v)
    \/ \E p \in Procs : LoaderRaises(p)
    \/ \E r \in AllNodes : Replicate(r)

SpecConc == InitConc /\ [][NextConc]_vars

\* ================================================================ claims
\* The signal the contract assigns to each raw error.
StatusOf(t) ==
    CASE t = "ConnectionError" -> 503
      [] t = "TimeoutError" -> 504
      [] OTHER -> 500
DetailOf(t) ==
    CASE t = "ConnectionError" -> "Service Unavailable"
      [] t = "TimeoutError" -> "Gateway Timeout"
      [] OTHER -> "Internal Server Error"
SignalOf(t) ==
    [type |-> "HTTPException", status_code |-> StatusOf(t), detail |-> DetailOf(t),
     context |-> t]

Failed(a) == a.error # "none"
IsRead(c) == c.op \in {"hget", "hget_l"}
\* The guarded hget of call c went to a replica, the replica failed and the
\* primary answered.
ReplicaFailedPrimaryServed(c) ==
    /\ IsRead(c)
    /\ Len(c.attempts) >= 2
    /\ c.attempts[1].node # Primary /\ Failed(c.attempts[1])
    /\ ~Failed(c.attempts[2])

\* C1: with at least one replica, an hget whose attempt on the selected
\* replica fails and whose attempt on the primary for the same (hash, key)
\* succeeds returns the primary's result, no failure reaches the caller, and
\* the "Replica failed ... Using primary" event is logged exactly once.
C1_ReplicaFailureServedByPrimary ==
    \A p \in Procs : LET c == call[p] IN
        (replicas >= 1 /\ ReplicaFailedPrimaryServed(c)) =>
            /\ c.attempts[1].node \in Replicas
            /\ c.attempts[2].node = Primary
            /\ c.attempts[2].cmd = "hget" /\ c.attempts[2].args = c.args
            /\ c.got = c.attempts[2].reply
            /\ c.fallback_logs = 1
            /\ c.op = "hget" =>
                /\ c.pc = "done" /\ c.result = "return"
                /\ c.ret = store[Primary][c.args]

\* C1 witness: an hget answered "ann_json" by the primary after the chosen
\* replica, which does not hold the value yet, failed.
C1_Witness ==
    \E p \in Procs : LET c == call[p] IN
        /\ replicas >= 1 /\ c.op = "hget" /\ ReplicaFailedPrimaryServed(c)
        /\ c.pc = "done" /\ c.ret = "ann_json"
        /\ store[c.attempts[1].node][c.args] = None

\* Both the func and the fail_over_to of the guard call c is in have failed.
BothFailed(c) ==
    /\ Len(c.attempts) >= 2
    /\ c.attempts[1].role = "func" /\ Failed(c.attempts[1])
    /\ c.attempts[2].role = "fail_over" /\ Failed(c.attempts[2])

\* C2: when the first operation and the fallback of a guarded call both fail,
\* the call ends with the signal classified from the fallback's error, never
\* from the first error; for a Cache read the signal the guarded primary has
\* already produced is passed through unchanged.
C2_SignalIsTheFallbacks ==
    \A p \in Procs : LET c == call[p] IN
        BothFailed(c) =>
            /\ c.pc = "done" /\ c.result = "raise"
            /\ Len(c.attempts) = 2
            /\ c.raised = SignalOf(c.attempts[2].error)

\* C2 witness: a Cache read whose replica raised ConnectionError and whose
\* primary raised TimeoutError ended with 504.
C2_Witness ==
    \E p \in Procs : LET c == call[p] IN
        /\ IsRead(c) /\ BothFailed(c) /\ c.fail_over_to = "guarded"
        /\ c.attempts[1].error = "ConnectionError"
        /\ c.attempts[2].error = "TimeoutError"
        /\ c.raised.status_code = 504

HsetAttempts(c) == {i \in 1..Len(c.attempts) : c.attempts[i].cmd = "hset"}

\* C3: an hset (the one hget_l issues included) runs its store command on
\* the primary only, attempts it once, and when the attempt fails the call
\* ends with the classified signal, with no fallback and no second attempt.
C3_HsetPrimaryOnlyOnce ==
    \A p \in Procs : LET c == call[p] IN
        /\ c.cmd = "hset" => (c.node = Primary /\ c.fail_over_to = "none"
                               /\ c.pc \in {"func", "done"})
        /\ Cardinality(HsetAttempts(c)) <= 1
        /\ \A i \in HsetAttempts(c) :
            /\ c.attempts[i].node = Primary /\ c.attempts[i].role = "func"
            /\ i = Len(c.attempts) /\ c.pc = "done"
            /\ Failed(c.attempts[i]) =>
                (c.result = "raise" /\ c.raised = SignalOf(c.attempts[i].error))
        /\ (c.op = "hset" /\ c.pc = "done") => Len(c.attempts) = 1
        /\ c.op = "hset" => c.fallback_logs = 0

\* C3 witness: the hset of an hget_l, issued after a replica read, failed
\* on the primary with TimeoutError and the call ended with 504.
C3_Witness ==
    \E p \in Procs : LET c == call[p] IN
        /\ replicas >= 1 /\ c.op = "hget_l" /\ c.pc = "done"
        /\ Len(c.attempts) = 2 /\ c.attempts[1].node \in Replicas
        /\ c.attempts[2].cmd = "hset" /\ c.attempts[2].error = "TimeoutError"
        /\ c.raised.status_code = 504

\* C4: with zero replicas an hget runs exactly one store command, on the
\* primary, and no fallback path is taken: a failure ends the call with the
\* classified signal, with no second attempt and no fallback log event.
C4_NoReplicasNoFallback ==
    \A p \in Procs : LET c == call[p] IN
        (replicas = 0 /\ IsRead(c)) =>
            /\ c.pc # "fail_over" /\ c.fallback_logs = 0
            /\ \A i \in 1..Len(c.attempts) :
                  c.attempts[i].node = Primary /\ c.attempts[i].role = "func"
            /\ Cardinality({i \in 1..Len(c.attempts) : c.attempts[i].cmd = "hget"}) <= 1
            /\ (c.op = "hget" /\ c.pc = "done") => Len(c.attempts) = 1
            /\ (Len(c.attempts) >= 1 /\ Failed(c.attempts[1])) =>
                /\ c.pc = "done" /\ c.result = "raise" /\ Len(c.attempts) = 1
                /\ c.raised = SignalOf(c.attempts[1].error)

\* C4 witness: with no replica, an hget failed on the primary and ended
\* with 503 after its single attempt.
C4_Witness ==
    \E p \in Procs : LET c == call[p] IN
        /\ replicas = 0 /\ c.op = "hget" /\ c.pc = "done"
        /\ Len(c.attempts) = 1 /\ c.attempts[1].error = "ConnectionError"
        /\ c.raised.status_code = 503 /\ c.fallback_logs = 0

Last(c) == c.attempts[Len(c.attempts)]

\* C5: handle_exception never returns normally and maps every raw error to
\* one signal: a connection error to 503 "Service Unavailable", a timeout to
\* 504 "Gateway Timeout", any other error that is not already a signal of
\* this layer to 500 "Internal Server Error".
C5_ClassifiesEveryRawError ==
    /\ \A t \in RawErrors : handle_exception(Raw(t)) = SignalOf(t)
    /\ \A p \in Procs : LET c == call[p] IN
        (c.pc = "done" /\ Len(c.attempts) >= 1 /\ Failed(Last(c))) =>
            /\ c.result = "raise"
            /\ c.raised.type = "HTTPException"
            /\ c.raised.status_code = StatusOf(Last(c).error)
            /\ c.raised.detail = DetailOf(Last(c).error)

\* C5 witness: a call whose last store command raised TimeoutError ended
\* with 504 "Gateway Timeout".
C5_Witness ==
    \E p \in Procs : LET c == call[p] IN
        /\ c.pc = "done" /\ c.result = "raise" /\ Len(c.attempts) >= 1
        /\ Last(c).error = "TimeoutError"
        /\ c.raised.status_code = 504 /\ c.raised.detail = "Gateway Timeout"

IsOneGuardedOp(c) == c.op \in {"hget", "hset", "decorated"}

\* C6: a guarded call ends either by returning the result of a store
\* command that succeeded (func or fail_over_to) or with one classified
\* signal (503, 504, 500); no failure is swallowed; without a fallback a
\* failing command is run once and its error classified at once.
C6_ResultOrOneSignal ==
    \A p \in Procs : LET c == call[p]  n == Len(c.attempts) IN
        /\ \A i \in 1..n : Failed(c.attempts[i]) =>
            \/ /\ i < n /\ c.attempts[i].role = "func"
               /\ c.attempts[i + 1].role = "fail_over"
            \/ i = n /\ c.attempts[i].role = "func" /\ c.pc = "fail_over"
            \/ /\ i = n /\ c.pc = "done" /\ c.result = "raise"
               /\ c.raised = SignalOf(c.attempts[i].error)
        /\ (IsOneGuardedOp(c) /\ c.pc = "done") =>
            /\ n \in 1..2
            /\ \/ /\ c.result = "return" /\ ~Failed(c.attempts[n])
                  /\ c.ret = (IF c.op = "hset" THEN None ELSE c.attempts[n].reply)
               \/ /\ c.result = "raise" /\ Failed(c.attempts[n])
                  /\ c.raised.type = "HTTPException"
                  /\ c.raised.status_code \in {503, 504, 500}
            /\ (c.fail_over_to = "none" /\ Failed(c.attempts[1])) =>
                (n = 1 /\ c.raised = SignalOf(c.attempts[1].error))

\* C6 witness: a guard without fallback whose command raised ValueError
\* ended with 500 after that one attempt.
C6_Witness ==
    \E p \in Procs : LET c == call[p] IN
        /\ c.op = "decorated" /\ c.fail_over_to = "none" /\ c.pc = "done"
        /\ Len(c.attempts) = 1 /\ c.attempts[1].error = "ValueError"
        /\ c.result = "raise" /\ c.raised.status_code = 500

\* C7: in one guarded call the fallback runs at most once, only after the
\* first operation has failed, and with the same arguments; when the first
\* operation succeeds, whatever it returns (None included), the fallback is
\* not run and the result is returned unchanged.
C7_FallbackOnlyAfterFailure ==
    \A p \in Procs : LET c == call[p]  n == Len(c.attempts) IN
        /\ Cardinality({i \in 1..n : c.attempts[i].role = "fail_over"}) <= 1
        /\ \A i \in 1..n : c.attempts[i].role = "fail_over" =>
            /\ i > 1
            /\ c.attempts[i - 1].role = "func" /\ Failed(c.attempts[i - 1])
            /\ c.attempts[i].cmd = c.attempts[i - 1].cmd
            /\ c.attempts[i].args = c.attempts[i - 1].args
            /\ c.attempts[i].value = c.attempts[i - 1].value
        /\ \A i \in 1..n : (c.attempts[i].role = "func" /\ ~Failed(c.attempts[i])) =>
            /\ i = n \/ c.attempts[i + 1].role = "func"
            /\ c.pc # "fail_over"
        /\ c.pc = "fail_over" => (n >= 1 /\ c.attempts[n].role = "func" /\ Failed(c.attempts[n]))
        /\ (c.op \in {"hget", "decorated"} /\ n >= 1 /\ ~Failed(c.attempts[1])) =>
            /\ n = 1 /\ c.fallback_logs = 0
            /\ c.pc = "done" /\ c.result = "return"
            /\ c.ret = c.attempts[1].reply

\* C7 witness: a replica read of a missing field returned None and the
\* primary, the fallback, was not asked.
C7_Witness ==
    \E p \in Procs : LET c == call[p] IN
        /\ c.op = "hget" /\ c.fail_over_to = "guarded" /\ c.pc = "done"
        /\ Len(c.attempts) = 1 /\ c.attempts[1].node \in Replicas
        /\ c.result = "return" /\ c.ret = None

\* The hset attempts of call c are exactly one successful hset of `payload`
\* at the call's (hash, key) on the primary.
StoredOnce(c, payload) ==
    /\ Cardinality(HsetAttempts(c)) = 1
    /\ \A i \in HsetAttempts(c) :
        /\ c.attempts[i].node = Primary /\ c.attempts[i].args = c.args
        /\ c.attempts[i].value = payload /\ ~Failed(c.attempts[i])

\* The loader of call c has produced a payload that the schema, if any,
\* accepts, and no hset of the call has failed.
LoadedCleanly(c) ==
    /\ c.payload # Pending
    /\ c.model = NoModel \/ validate_json(c.payload, c.model)
    /\ \A i \in HsetAttempts(c) : ~Failed(c.attempts[i])

Parsed(c, v) == IF c.model = NoModel THEN v ELSE "User(name='Ann')"

\* C8: hget_l on an absent (hash, key), with no concurrent caller, invokes
\* the loader once, issues one hset of the loader's payload to the primary
\* and returns the payload, which the primary then holds for a later hget.
C8_AbsentKeyLoadedStoredReturned ==
    \A p \in Procs : LET c == call[p] IN
        (c.op = "hget_l" /\ c.pc = "done" /\ c.got = None /\ LoadedCleanly(c)) =>
            /\ c.loader_calls = 1
            /\ StoredOnce(c, c.payload)
            /\ c.result = "return" /\ c.ret = Parsed(c, c.payload)
            /\ store[Primary][c.args] = c.payload

\* C9: hget_l with a schema whose hget returns a value that fails the schema
\* behaves as on a miss: the loader is invoked once, its payload is written
\* with hset over the invalid value and returned schema-parsed; the invalid
\* value is never returned.
C9_InvalidValueActsAsMiss ==
    \A p \in Procs : LET c == call[p] IN
        /\ (c.op = "hget_l" /\ c.model # NoModel /\ c.got \notin {Pending, None}
              /\ ~validate_json(c.got, c.model)) =>
            /\ c.loader_calls = 1
            /\ c.pc = "done" => ~(c.result = "return" /\ c.ret = c.got)
            /\ (c.pc = "done" /\ LoadedCleanly(c)) =>
                /\ StoredOnce(c, c.payload)
                /\ c.result = "return" /\ c.ret = Parsed(c, c.payload)
                /\ store[Primary][c.args] = c.payload

\* C10: an hget_l whose hget returns a non-absent value (a stored string of
\* any length, zero included) that needs no schema or passes it is a hit:
\* no loader call, no hset, and the value read is returned (schema-parsed
\* when a schema was given).
C10_NonAbsentValidValueIsHit ==
    \A p \in Procs : LET c == call[p] IN
        (c.op = "hget_l" /\ c.got \notin {Pending, None}
           /\ (c.model = NoModel \/ validate_json(c.got, c.model))) =>
            /\ c.loader_calls = 0
            /\ HsetAttempts(c) = {}
            /\ c.pc = "done" /\ c.result = "return"
            /\ c.ret = Parsed(c, c.got)


ByName(c) == c.op \in {"by_name", "read_by_name"}

\* C12: resolving a name the primary does not provide fails at once with
\* AttributeError naming the 'Cache' object, in the read resolution and in
\* the by-name accessor alike: no store command is run on any node, no
\* replica is selected, and the failure is not turned into 503/504/500.
C12_UnsupportedNameRaisesAttributeError ==
    \A p \in Procs : LET c == call[p] IN
        (ByName(c) /\ c.cmd \notin RedisCommands) =>
            /\ c.pc = "done" /\ c.result = "raise"
            /\ c.raised.type = "AttributeError"
            /\ c.raised.detail = "'Cache' object has no attribute 'hgetx'"
            /\ c.raised.status_code \notin {503, 504, 500}
            /\ c.attempts = <<>>
            /\ c.node = Primary /\ c.fallback_logs = 0

\* C12 witness: with replicas configured, the read resolution of "hgetx"
\* ended with AttributeError.
C12_Witness ==
    \E p \in Procs : LET c == call[p] IN
        /\ replicas >= 1 /\ c.op = "read_by_name" /\ c.cmd = "hgetx"
        /\ c.pc = "done" /\ c.raised.type = "AttributeError"

\* C15: a store command reached through Cache.__getattr__, a read command
\* included, runs on the primary under the guard without fallback: never on
\* a replica, one attempt, and a failure ends the call with the signal
\* classified from the primary's error.
C15_ByNameRunsOnPrimaryOnly ==
    \A p \in Procs : LET c == call[p]  n == Len(c.attempts) IN
        (c.op = "by_name" /\ c.cmd \in RedisCommands) =>
            /\ c.node = Primary /\ c.fail_over_to = "none"
            /\ c.pc \in {"func", "done"} /\ c.fallback_logs = 0
            /\ n <= 1 /\ (c.pc = "done" <=> n = 1)
            /\ \A i \in 1..n :
                /\ c.attempts[i].node = Primary /\ c.attempts[i].role = "func"
                /\ c.attempts[i].cmd = c.cmd
                /\ Failed(c.attempts[i]) =>
                    (c.result = "raise" /\ c.raised = SignalOf(c.attempts[i].error))
                /\ ~Failed(c.attempts[i]) =>
                    (c.result = "return" /\ c.ret = c.attempts[i].reply)

\* C15 witness: with replicas configured, hexists asked by name failed on
\* the primary with TimeoutError and the call ended with 504.
C15_Witness ==
    \E p \in Procs : LET c == call[p] IN
        /\ replicas >= 1 /\ c.op = "by_name" /\ c.cmd = "hexists" /\ c.pc = "done"
        /\ Len(c.attempts) = 1 /\ c.attempts[1].node = Primary
        /\ c.attempts[1].error = "TimeoutError" /\ c.raised.status_code = 504


HgetAttempts(c) == {i \in 1..Len(c.attempts) : c.attempts[i].cmd = "hget"}

\* C14: with at least one replica, an hget attempts exactly one replica, one
\* of the configured ones; if it fails no other replica is tried and the
\* only further attempt is one on the primary: at most two store commands,
\* the replica first and the primary second.
C14_OneReplicaThenPrimary ==
    \A p \in Procs : LET c == call[p] IN
        (replicas >= 1 /\ IsRead(c)) =>
            /\ c.cmd = "hget" =>
                (c.node \in Replicas /\ c.fail_over_to = "guarded")
            /\ HgetAttempts(c) \subseteq {1, 2}
            /\ Cardinality({i \in HgetAttempts(c) : c.attempts[i].node # Primary}) <= 1
            /\ 1 \in HgetAttempts(c) =>
                /\ c.attempts[1].role = "func"
                /\ c.attempts[1].node \in Replicas
            /\ 2 \in HgetAttempts(c) =>
                /\ Failed(c.attempts[1])
                /\ c.attempts[2].role = "fail_over"
                /\ c.attempts[2].node = Primary
            /\ (c.op = "hget" /\ c.pc = "done") => Len(c.attempts) \in {1, 2}

\* C14 witness: the second call of a behaviour chose replica 2 of two,
\* which failed, and then asked the primary and nothing else.
C14_Witness ==
    \E p \in Procs : LET c == call[p] IN
        /\ replicas = 2 /\ calls = 2 /\ c.op = "hget" /\ c.pc = "done"
        /\ Len(c.attempts) = 2
        /\ c.attempts[1].node = 2 /\ Failed(c.attempts[1])
        /\ c.attempts[2].node = Primary


\* The hget of the hget_l call c has ended in a failure signal: its last
\* store command is a failed hget with no fallback left to run.
HgetStepFailed(c) ==
    /\ c.op = "hget_l" /\ Len(c.attempts) >= 1
    /\ Last(c).cmd = "hget" /\ Failed(Last(c))
    /\ c.pc # "fail_over"

C16_Ends ==
    \A p \in Procs : LET c == call[p] IN
        HgetStepFailed(c) =>
            /\ c.pc = "done" /\ c.result = "raise"
            /\ c.raised = SignalOf(Last(c).error)
            /\ c.loader_calls = 0 /\ c.payload = Pending
            /\ HsetAttempts(c) = {}

\* A step of an hget_l call that leaves it with a failed hget changes the
\* store of no node.
C16_Frame ==
    \A p \in Procs :
        (call'[p] # call[p] /\ HgetStepFailed(call'[p])) => store' = store

\* C16: when the hget of an hget_l ends in a failure signal (the only node
\* failed, or the replica and the primary both did), hget_l ends with that
\* signal, the loader is not invoked and no hset is issued, so the call
\* changes the store of no node.
C16_FailedReadEndsHgetL == []C16_Ends /\ [][C16_Frame]_vars

\* C16 witness: an hget_l whose replica raised TimeoutError and whose primary
\* raised ConnectionError ended with 503 while the primary held a value.
C16_Witness ==
    \E p \in Procs : LET c == call[p] IN
        /\ HgetStepFailed(c) /\ Len(c.attempts) = 2
        /\ c.attempts[1].error = "TimeoutError"
        /\ c.attempts[2].error = "ConnectionError"
        /\ c.raised.status_code = 503
        /\ store[Primary][c.args] = "bad_json"

\* The loader of the hget_l call c was invoked and raised.
LoaderFailed(c) ==
    /\ c.op = "hget_l" /\ c.pc = "done"
    /\ c.loader_calls = 1 /\ c.payload = Pending

C17_Ends ==
    \A p \in Procs : LET c == call[p] IN
        LoaderFailed(c) =>
            /\ IsMiss(c.got, c.model)
            /\ c.result = "raise" /\ c.raised = Raw("LoaderError")
            /\ HsetAttempts(c) = {}
            /\ Last(c).node = Primary => store[Primary][c.args] = c.got

\* The step in which the loader fails changes no entry of the primary.
C17_Frame ==
    \A p \in Procs :
        (call'[p] # call[p] /\ LoaderFailed(call'[p])) =>
            store'[Primary] = store[Primary]

\* C17: when the loader fails in an hget_l that saw a miss or an invalid
\* value, the call ends with the loader's failure, no hset is issued and the
\* primary's entry for (hash, key) is as it was: absent, or the invalid value.
C17_LoaderFailureLeavesEntry == []C17_Ends /\ [][C17_Frame]_vars

\* C17 witness: the primary holds "bad_json", hget_l with a schema read it
\* from the primary, the loader raised, and "bad_json" is still there.
C17_Witness ==
    \E p \in Procs : LET c == call[p] IN
        /\ LoaderFailed(c) /\ c.model = "User" /\ c.got = "bad_json"
        /\ Last(c).node = Primary
        /\ store[Primary][c.args] = "bad_json"


\* C18: a value that an hget_l call with a schema has written to the store
\* validates against that schema: no hset issued by an hget_l with a schema
\* carries a loader payload that fails the schema.
C18_WrittenPayloadValidates ==
    \A p \in Procs : LET c == call[p] IN
        (c.op = "hget_l" /\ c.model # NoModel) =>
            \A i \in HsetAttempts(c) : validate_json(c.attempts[i].value, c.model)


\* The tasks of call c that release node n.
ReleasesOf(c, n) == {i \in 1..Len(c.tasks) : c.tasks[i].node = n}

\* C13: for every topology, when aclose returns normally a release has been
\* started on the primary and on every replica, each exactly once, and every
\* one of them has completed; no order among the completions is imposed.
C13_AcloseReleasedEveryNodeOnce ==
    \A p \in Procs : LET c == call[p] IN
        (c.op = "aclose" /\ c.pc = "done" /\ c.result = "return") =>
            /\ \A n \in 0..replicas : Cardinality(ReleasesOf(c, n)) = 1
            /\ Len(c.tasks) = replicas + 1
            /\ \A i \in 1..Len(c.tasks) : c.tasks[i].state = "closed"
            /\ Len(c.released) = replicas + 1
            /\ \A n \in 0..replicas : \E j \in 1..Len(c.released) : c.released[j] = n

\* C13 witness: with two replicas aclose returned after the releases
\* completed in the order replica 2, primary, replica 1.
C13_Witness ==
    \E p \in Procs : LET c == call[p] IN
        /\ c.op = "aclose" /\ c.pc = "done" /\ c.result = "return"
        /\ replicas = 2
        /\ c.released = <<2, Primary, 1>>


\* The successful hsets of field f in the call c.
WritesOf(c, f) ==
    {i \in HsetAttempts(c) : c.attempts[i].args = f /\ ~Failed(c.attempts[i])}

\* C11: hget_l holds no per-key lock. Each of the concurrent hget_l calls
\* invokes its loader at most once (at most one invocation per caller in
\* flight), and whatever the interleaving the primary holds, for every
\* field, the payload of the hset that executed last.
C11_NoLockLastWriteWins ==
    /\ \A p \in Procs : call[p].loader_calls <= 1
    /\ \A p \in Procs : Cardinality(HsetAttempts(call[p])) <= 1
    /\ \A f \in Fields : \A p \in Procs :
          (last_hset[f] = p /\ WritesOf(call[p], f) # {}) =>
              \A i \in WritesOf(call[p], f) :
                  store[Primary][f] = call[p].attempts[i].value

\* C11 witness: two hget_l calls on the same absent field both saw the miss,
\* both invoked their loader and both issued an hset, with different
\* payloads; both have completed and the primary holds the payload of c1,
\* whose hset executed last, and not that of c2.
C11_Witness ==
    LET c1 == call["c1"]  c2 == call["c2"] IN
        /\ c1.op = "hget_l" /\ c2.op = "hget_l" /\ c1.args = c2.args
        /\ c1.pc = "done" /\ c2.pc = "done"
        /\ c1.got = None /\ c2.got = None
        /\ c1.loader_calls = 1 /\ c2.loader_calls = 1
        /\ WritesOf(c1, c1.args) # {} /\ WritesOf(c2, c1.args) # {}
        /\ c1.payload = "ann_json" /\ c2.payload = "bad_json"
        /\ last_hset[c1.args] = "c1"
        /\ store[Primary][c1.args] = "ann_json"

====
